---- MODULE Spec2Model ----
(***************************************************************************)
(* HealthPal appointment session: two clients (doctor, patient) running    *)
(* the AppointmentSession component over AppointmentSessionService and a   *)
(* shared appointment document with a message sub-collection.              *)
(*                                                                         *)
(* The document store is the authority: a write is issued by a client,     *)
(* committed (or rejected) by the store, and its result handed back to     *)
(* the caller; every committed change of the appointment document is       *)
(* pushed, in order, to each registered listener, and a new listener       *)
(* first receives the document as it is when it registers.                 *)
(*                                                                         *)
(* A React component is modelled by its state (st), its refs and its armed *)
(* timers. React renders after an event handler or callback has run and    *)
(* before the next one runs, so a handler reads the state as it is when    *)
(* the handler starts, and the effects whose dependencies the handler      *)
(* changed run as part of the same step. A timer callback keeps the state  *)
(* of the render that armed it.                                            *)
(*                                                                         *)
(* Beside the session component the module holds the session page          *)
(* (pages/AppointmentSession), which sets an appointment active and        *)
(* completes it, and the doctor's schedule page, which approves or rejects *)
(* a pending request.                                                      *)
(***************************************************************************)
EXTENDS Integers, Sequences, FiniteSets, TLC

VARIABLES
    doc,        \* the appointment document in the store
    serverTime, \* the store's clock, the source of serverTimestamp()
    messages,   \* the message sub-collection, in commit order
    reqs,       \* per client: writes issued and not yet decided by the store
    results,    \* per client: failed writes whose await has not resumed
    inbox,      \* per client: snapshots sent to its listener, not yet delivered
    view,       \* per client: HomePage view ("home", "session", "left")
    st,         \* per client: React state of AppointmentSession
    tm,         \* per client: countdownRef, timerRef and the armed timers
    redir,      \* per client: armed redirect timers
    listen,     \* per client: the listener of the message sub-collection
    chat,       \* per client: the messages state of AppointmentSession
    svc,        \* per client: the subscription handles of a service object
    page,       \* per client: the session page (pages/AppointmentSession)
    sched,      \* the appointment request and the schedule pages of the doctor
    hist        \* history of the run, read by the properties only

vars == <<doc, serverTime, messages, reqs, results, inbox, view, st, tm,
          redir, listen, chat, svc, page, sched, hist>>

-----------------------------------------------------------------------------
(* Bounds of the model *)

MaxCountdowns == 2   \* countdowns one client starts
MaxTextLen == 2      \* length of a typed message
\* Presses of an end button, submissions of the chat form, re-renders of
\* HomePage under a session view and transient failures of the store, all
\* together in one run.
MaxEvents == 1

\* The same events in a session only the doctor joins.
MaxSoloEvents == 2

\* Calls of the store operations by callers of any kind.
MaxCalls == 3

\* Messages sent directly in one run, and the instants of the client clocks
\* they are sent at: FirstStamp..MaxStamp, around the instant at which the
\* number of digits of the clock changes.
MaxMessages == 3
FirstStamp == 8
MaxStamp == 10

\* Subscriptions and cleanup() calls on one service object.
MaxSubscribes == 2
MaxCleanups == 2

\* Times one client opens the session page.
MaxOpens == 2

\* Loads of the pending list by one schedule page.
MaxFetches == 2

\* The countdown, in ticks of the display interval. The component counts 10
\* ticks of 1000 ms against a deadline of 10000 ms; the model keeps the ratio
\* (the deadline is due with the last tick) and shortens the count.
SessionTicks == 2

\* startSession: sessionDuration: 10000
SessionDuration == 10000

Clients == {"doctor", "patient"}

\* The schedule pages the doctor has open (two browsers).
Pages == {"first", "second"}

Uid(c) == c

Name(c) == IF c = "doctor" THEN "Dr" ELSE "Pat"

Role(c) == c

-----------------------------------------------------------------------------
(* Text of a chat message: a sequence over a space and a letter *)

Chars == {" ", "a"}

RECURSIVE TextsOfLen(_)
TextsOfLen(n) ==
    IF n = 0 THEN {<< >>}
    ELSE {Append(t, ch) : t \in TextsOfLen(n - 1), ch \in Chars}

Texts == UNION {TextsOfLen(n) : n \in 0..MaxTextLen}

RECURSIVE TrimStart(_)
TrimStart(t) ==
    IF t # << >> /\ Head(t) = " " THEN TrimStart(Tail(t)) ELSE t

RECURSIVE TrimEnd(_)
TrimEnd(t) ==
    IF t # << >> /\ t[Len(t)] = " " THEN TrimEnd(SubSeq(t, 1, Len(t) - 1)) ELSE t

Trim(t) == TrimEnd(TrimStart(t))

-----------------------------------------------------------------------------
(* The store *)

NoDoc ==
    [exists |-> FALSE, sessionStatus |-> "none", startedBy |-> "none",
     sessionStartTime |-> 0, sessionDuration |-> 0]

\* approveAppointmentRequest: the appointment as it is created.
NewAppointment ==
    [exists |-> TRUE, sessionStatus |-> "waiting", startedBy |-> "none",
     sessionStartTime |-> 0, sessionDuration |-> 0]

\* subscribeToAppointment: what the listener hands to the callback.
Snap(d) == [exists |-> d.exists, sessionStatus |-> d.sessionStatus, error |-> ""]

\* subscribeToAppointment: what the error handler of the listener hands to
\* the callback.
ErrorSnap == [exists |-> FALSE, sessionStatus |-> "none", error |-> "unavailable"]

StartCommitUpsert(d, now, r, ok) ==
    IF ok
    THEN [applied |-> TRUE,
          doc |-> [exists |-> TRUE, sessionStatus |-> "active",
                   startedBy |-> r.userId, sessionStartTime |-> now,
                   sessionDuration |-> SessionDuration]]
    ELSE [applied |-> FALSE, doc |-> d]

StartCommitAnonymous(d, now, r, ok) ==
    IF ok /\ d.exists
    THEN [applied |-> TRUE,
          doc |-> [d EXCEPT !.sessionStatus = "active", !.sessionStartTime = now]]
    ELSE [applied |-> FALSE, doc |-> d]

StartCommitTorn(d, now, r, ok) ==
    IF d.exists
    THEN [applied |-> ok,
          doc |-> [d EXCEPT !.sessionStatus = "active", !.startedBy = r.userId]]
    ELSE [applied |-> FALSE, doc |-> d]

\* startSession: updateDoc(appointmentRef, {sessionStatus: 'active', ...}) on
\* document d at store time now. It is rejected when the document does not
\* exist; otherwise the four fields are overwritten.
StartCommit(d, now, r, ok) ==
    IF ok /\ d.exists
    THEN [applied |-> TRUE,
          doc |-> [d EXCEPT !.sessionStatus = "active",
                            !.startedBy = r.userId,
                            !.sessionStartTime = now,
                            !.sessionDuration = SessionDuration]]
    ELSE [applied |-> FALSE, doc |-> d]

EndCommitUpdateOnly(d, r, ok) ==
    IF ok /\ d.exists
    THEN [applied |-> TRUE, doc |-> [d EXCEPT !.sessionStatus = "ended"]]
    ELSE [applied |-> FALSE, doc |-> d]

EndCommitDeleteOnly(d, r, ok) ==
    IF ok THEN [applied |-> TRUE, doc |-> NoDoc] ELSE [applied |-> FALSE, doc |-> d]

\* endSession: the batch of update(sessionStatus 'ended', sessionEndTime,
\* endedBy, endReason) and delete of the same document, committed as one
\* unit. The update is rejected when the document does not exist, and then
\* nothing of the batch is applied.
EndCommit(d, r, ok) ==
    IF ok /\ d.exists
    THEN [applied |-> TRUE, doc |-> NoDoc]
    ELSE [applied |-> FALSE, doc |-> d]

StatusUpdateMerge(d, status, ok) ==
    IF ok THEN [d EXCEPT !.exists = TRUE, !.sessionStatus = status] ELSE d

\* updateAppointmentSessionStatus: updateDoc(appointmentRef, {sessionStatus,
\* updatedAt}); rejected when the document does not exist, and then the error
\* is thrown to the caller.
StatusUpdateCommit(d, status, ok) ==
    IF ok /\ d.exists THEN [d EXCEPT !.sessionStatus = status] ELSE d

\* completeAppointmentSession: updateDoc(appointmentRef, {status: 'completed',
\* sessionStatus: 'completed', completedAt, updatedAt}); rejected when the
\* document does not exist, and then the error is thrown to the caller.
CompleteCommit(d, ok) ==
    IF ok /\ d.exists THEN [d EXCEPT !.sessionStatus = "completed"] ELSE d

ToISOStringUnpadded(t) == IF t < 10 THEN <<t>> ELSE <<t \div 10, t % 10>>

\* new Date().toISOString() at instant t: the digits of t in a fixed width,
\* zero-padded (two digits here).
ToISOString(t) == <<t \div 10, t % 10>>

\* The order of two strings in the store: by the first character that
\* differs, a prefix before the longer string.
RECURSIVE StringLess(_, _)
StringLess(a, b) ==
    IF b = << >> THEN FALSE
    ELSE IF a = << >> THEN TRUE
    ELSE IF Head(a) # Head(b) THEN Head(a) < Head(b)
    ELSE StringLess(Tail(a), Tail(b))

\* sendMessage: the document given to addDoc; createdAt is the client's
\* new Date().toISOString(). sentAt is the instant itself, kept for the
\* properties.
MessageDoc(r) ==
    [senderId |-> r.senderId, senderName |-> r.senderName,
     senderRole |-> r.senderRole, message |-> r.message,
     createdAt |-> ToISOString(r.sentAt), sentAt |-> r.sentAt]

\* One document put at its place in a list ordered by createdAt.
RECURSIVE InsertByCreatedAt(_, _)
InsertByCreatedAt(m, list) ==
    IF list = << >> THEN <<m>>
    ELSE IF StringLess(m.createdAt, Head(list).createdAt) THEN <<m>> \o list
    ELSE <<Head(list)>> \o InsertByCreatedAt(m, Tail(list))

\* subscribeToMessages: query(messagesRef, orderBy("createdAt", "asc")) over
\* the documents msgs, and the list the snapshot handler builds from it.
RECURSIVE OrderByCreatedAt(_)
OrderByCreatedAt(msgs) ==
    IF msgs = << >> THEN << >>
    ELSE InsertByCreatedAt(msgs[Len(msgs)],
                           OrderByCreatedAt(SubSeq(msgs, 1, Len(msgs) - 1)))

\* The listeners of the message sub-collection that are registered are sent
\* the ordered list of the documents msgs.
Notify(ls, msgs) ==
    [c \in DOMAIN ls |->
        IF ls[c].state = "live"
        THEN [ls[c] EXCEPT !.pending = Append(@, OrderByCreatedAt(msgs))]
        ELSE ls[c]]

CleanupKeepsHandles(s) ==
    [s EXCEPT
        !.released = @ \o (IF s.unsubscribeAppointment # 0
                           THEN <<s.unsubscribeAppointment>> ELSE << >>)
                       \o (IF s.unsubscribeMessages # 0
                           THEN <<s.unsubscribeMessages>> ELSE << >>)]

\* cleanup(): each handle that is set is called and set to null (0).
\* released: the unsubscribe functions called so far.
CleanupService(s) ==
    [s EXCEPT
        !.released = @ \o (IF s.unsubscribeAppointment # 0
                           THEN <<s.unsubscribeAppointment>> ELSE << >>)
                       \o (IF s.unsubscribeMessages # 0
                           THEN <<s.unsubscribeMessages>> ELSE << >>),
        !.unsubscribeAppointment = 0,
        !.unsubscribeMessages = 0]

-----------------------------------------------------------------------------
(* The component *)

\* The useState initial values; appointment "null" is null.
InitState ==
    [appointment |-> "null", sessionStatus |-> "waiting",
     sessionHasEnded |-> FALSE, isLoading |-> TRUE, error |-> "",
     timeRemaining |-> SessionTicks]

\* countdownRef.current and timerRef.current (0 is null), the armed deadline
\* timers and the armed intervals; n counts the countdowns started.
InitTimers ==
    [n |-> 0, countdownRef |-> 0, timerRef |-> 0, timers |-> {}, ivs |-> {}]

\* one: armed timers of the subscription callback (1000 ms);
\* three: the timer of the redirect effect (3000 ms).
InitRedir == [one |-> 0, three |-> FALSE]

\* observed: the last snapshot delivered; seen: the component has observed the
\* document as existing; elapsed: a deadline has come due; manualEarly:
\* handleEndSession('manual') ran past its guard with the countdown running
\* and no deadline due; timeUpCalled: endSession(uid, 'time_up') was called;
\* lateEndError: an endSession called with the document already removed was
\* reported as an error; endCalls: calls of the service's endSession;
\* onEndCalls: calls of onEndSession; remoteEnd: a snapshot with exists = false
\* was delivered while the countdown was running and the client had not ended
\* the session itself; failedStreams: the listeners of the client
\* ("appointment", "messages") whose error handler ran.
InitHist ==
    [observed |-> "none", seen |-> FALSE, elapsed |-> FALSE,
     manualEarly |-> FALSE, timeUpCalled |-> FALSE, lateEndError |-> FALSE,
     endCalls |-> 0, onEndCalls |-> 0, remoteEnd |-> FALSE,
     failedStreams |-> {}]

\* startWrites: committed writes of sessionStartTime; ends: endedBy and
\* endReason of every committed end; events: user actions, HomePage re-renders
\* and store failures so far; ignored: the sessionStatus values under which a
\* submission of the chat form was dropped; blank: a submission whose text is
\* empty after trimming was dropped under an active, not ended session; calls:
\* the store operations called directly (StoreSpec).
InitLog ==
    [startWrites |-> 0, ends |-> << >>,
     events |-> [manual |-> 0, send |-> 0, home |-> 0, fail |-> 0],
     ignored |-> {}, blank |-> FALSE, calls |-> 0]

\* The service object as constructed: both handles null (0); made: the
\* listeners registered so far; cleanups: the cleanup() calls so far.
InitService ==
    [unsubscribeAppointment |-> 0, unsubscribeMessages |-> 0, made |-> 0,
     released |-> << >>, cleanups |-> 0]

\* The session page: pc "closed" (not mounted), "fetching" (getAppointmentDetails
\* awaited), "fetched" (getPatientHealthRecord awaited), "open" (loaded);
\* appointment: the sessionStatus of the appointment state ("null" is null);
\* data: the sessionStatus of appointmentData; opens: mounts so far.
InitPage == [pc |-> "closed", appointment |-> "null", data |-> "null", opens |-> 0]

\* A schedule page: list: the request is in pendingRequests; processing:
\* processingId is the request's id; fetch: the result of a load of the list
\* that has not resolved yet; call: the service call awaited; resets: armed
\* timers of setProcessingId(null); fetches: loads so far.
InitSchedulePage ==
    [mounted |-> FALSE, list |-> FALSE, processing |-> FALSE, fetch |-> "none",
     call |-> "none", resets |-> 0, fetches |-> 0]

\* request: the pending request document exists; created: the appointments
\* created from it; rejected: a rejectAppointmentRequest deleted it.
InitSched ==
    [request |-> TRUE, created |-> 0, rejected |-> FALSE,
     pages |-> [p \in Pages |-> InitSchedulePage]]

Init ==
    /\ doc = NewAppointment
    /\ serverTime = 0
    /\ messages = << >>
    /\ reqs = [c \in Clients |-> << >>]
    /\ results = [c \in Clients |-> << >>]
    /\ inbox = [c \in Clients |-> << >>]
    /\ view = [c \in Clients |-> "home"]
    /\ st = [c \in Clients |-> InitState]
    /\ tm = [c \in Clients |-> InitTimers]
    /\ redir = [c \in Clients |-> InitRedir]
    /\ listen = [c \in Clients |-> [state |-> "none", pending |-> << >>]]
    /\ chat = [c \in Clients |-> << >>]
    /\ svc = [c \in Clients |-> InitService]
    /\ page = [c \in Clients |-> InitPage]
    /\ sched = InitSched
    /\ hist = [log |-> InitLog, cl |-> [c \in Clients |-> InitHist]]

\* The part of the state one client's handlers work on. fresh: setAppointment
\* was called with a new object since the last render.
Local(c) ==
    [st |-> st[c], tm |-> tm[c], redir |-> redir[c], inbox |-> inbox[c],
     reqs |-> reqs[c], svc |-> svc[c], fresh |-> FALSE]

SetLocal(c, L) ==
    /\ st' = [st EXCEPT ![c] = L.st]
    /\ tm' = [tm EXCEPT ![c] = L.tm]
    /\ redir' = [redir EXCEPT ![c] = L.redir]
    /\ inbox' = [inbox EXCEPT ![c] = L.inbox]
    /\ reqs' = [reqs EXCEPT ![c] = L.reqs]
    /\ svc' = [svc EXCEPT ![c] = L.svc]

ClearTimerNoop(t, id) == t

\* clearTimeout(id)
ClearTimer(t, id) == [t EXCEPT !.timers = {x \in @ : x.id # id}]

\* clearInterval(id)
ClearInterval(t, id) == [t EXCEPT !.ivs = @ \ {id}]

\* startCountdown: a new interval and a new deadline timer. The deadline's
\* callback is the handleEndSession of the render that ran the subscription
\* effect: cap is that render's sessionHasEnded.
StartCountdown(L, cap) ==
    [L EXCEPT
        !.st.timeRemaining = SessionTicks,
        !.tm = [n |-> @.n + 1, countdownRef |-> @.n + 1, timerRef |-> @.n + 1,
                timers |-> @.timers \cup
                    {[id |-> @.n + 1, left |-> SessionTicks, cap |-> cap]},
                ivs |-> @.ivs \cup {@.n + 1}]]

\* The state updater of the display interval.
IntervalCallback(L) ==
    IF L.st.timeRemaining <= 1
    THEN [L EXCEPT !.st.timeRemaining = 0,
                   !.tm = [ClearInterval(@, @.countdownRef) EXCEPT !.countdownRef = 0]]
    ELSE [L EXCEPT !.st.timeRemaining = @ - 1]

\* One tick: every armed interval runs its callback, in creation order.
RECURSIVE RunIntervals(_, _)
RunIntervals(k, L) ==
    IF k > L.tm.n THEN L
    ELSE IF k \in L.tm.ivs THEN RunIntervals(k + 1, IntervalCallback(L))
    ELSE RunIntervals(k + 1, L)

\* The listeners of the service a component holds when it makes a call.
SubsOf(s) == <<s.unsubscribeAppointment, s.unsubscribeMessages>>

EffectCleanupEnds(L) ==
    [L EXCEPT !.inbox = << >>,
              !.svc = CleanupService(@),
              !.tm = ClearTimer(ClearInterval(@, @.countdownRef), @.timerRef),
              !.reqs = Append(@, [op |-> "end", userId |-> "none",
                                  reason |-> "manual", late |-> FALSE,
                                  subs |-> SubsOf(L.svc)])]

\* The cleanup of the subscription effect: cleanup() of the service and the
\* two clear calls; the refs keep their handles.
EffectCleanup(L) ==
    [L EXCEPT !.inbox = << >>,
              !.svc = CleanupService(@),
              !.tm = ClearTimer(ClearInterval(@, @.countdownRef), @.timerRef)]

\* The subscription effect, setup: a new service and its two listeners, of
\* which the appointment listener first receives the document d as it is.
Subscribe(L, d) ==
    [L EXCEPT !.inbox = <<Snap(d)>>,
              !.svc = [L.svc EXCEPT !.unsubscribeAppointment = L.svc.made + 1,
                                    !.unsubscribeMessages = L.svc.made + 2,
                                    !.made = L.svc.made + 2]]

\* The callback given to subscribeToAppointment, called with snapshot s. Its
\* closure is the one of the render that ran the subscription effect, which
\* re-runs whenever sessionHasEnded changes.
OnSnapshot(L, s) ==
    LET cap == L.st.sessionHasEnded
        L1 == [L EXCEPT !.st.appointment = s.sessionStatus,
                        !.st.sessionStatus = s.sessionStatus,
                        !.fresh = TRUE]
        L2 == IF s.sessionStatus = "active" /\ L.tm.countdownRef = 0
              THEN StartCountdown(L1, cap)
              ELSE L1
        L3 == IF s.sessionStatus = "ended"
              THEN [L2 EXCEPT !.st.sessionHasEnded = TRUE]
              ELSE L2
        L4 == IF s.exists THEN L3
              ELSE IF s.error # "" THEN [L EXCEPT !.st.error = s.error]
              ELSE IF cap THEN [L EXCEPT !.redir.one = @ + 1]
              ELSE L
    IN  [L4 EXCEPT !.st.isLoading = FALSE]

\* The doctor start effect: the condition under which it calls startSession.
StartWanted(c, s) ==
    c = "doctor" /\ s.appointment = "waiting" /\ ~ s.sessionHasEnded

\* A render of AppointmentSession after its state went from old to L.st, and
\* the effects whose dependencies changed. home: HomePage rendered too and
\* passed a new onEndSession.
Render(c, old, L, home, d) ==
    LET endedChanged == L.st.sessionHasEnded # old.sessionHasEnded
        subRerun == home \/ endedChanged
        startRerun == L.fresh \/ endedChanged
        redirRerun == subRerun \/ L.st.sessionStatus # old.sessionStatus
        L1 == IF subRerun THEN Subscribe(EffectCleanup(L), d) ELSE L
        L2 == IF startRerun /\ StartWanted(c, L.st)
              THEN [L1 EXCEPT !.reqs =
                       Append(@, [op |-> "start", userId |-> Uid(c),
                                  late |-> ~ d.exists, subs |-> SubsOf(L1.svc)])]
              ELSE L1
    IN  IF redirRerun
        THEN [L2 EXCEPT !.redir.three =
                 L.st.sessionHasEnded /\ L.st.sessionStatus = "ended"]
        ELSE L2

\* handleEndSession: if (sessionHasEnded) return;
EndSkipped(cap) == cap

\* handleEndSession: the two clear calls.
EndTimers(t) == ClearTimer(ClearInterval(t, t.countdownRef), t.timerRef)

\* handleEndSession(reason) of a render whose sessionHasEnded was cap.
\* mounted: the component is still mounted, so that its state setters act.
HandleEndSession(c, L, cap, reason, mounted, d) ==
    IF EndSkipped(cap) THEN L
    ELSE [L EXCEPT
            !.st.sessionHasEnded = IF mounted THEN TRUE ELSE @,
            !.tm = EndTimers(@),
            !.reqs = Append(@, [op |-> "end", userId |-> Uid(c),
                                reason |-> reason, late |-> ~ d.exists,
                                subs |-> SubsOf(L.svc)])]

SendAllowedAnyStatus(text, s) ==
    ~ (Trim(text) = << >> \/ s.sessionHasEnded)

SendAllowedUntrimmed(text, s) ==
    ~ (text = << >> \/ s.sessionStatus # "active" \/ s.sessionHasEnded)

\* handleSendMessage: the guard in front of the service call.
SendAllowed(text, s) ==
    ~ (Trim(text) = << >> \/ s.sessionStatus # "active" \/ s.sessionHasEnded)

\* handleSendMessage: the text handed to sendMessage.
SentText(text) == Trim(text)

\* handleSendMessage with newMessage = text; the store's clock stands for the
\* client's new Date().
HandleSendMessage(c, L, text, d) ==
    IF SendAllowed(text, L.st)
    THEN [L EXCEPT !.reqs =
             Append(@, [op |-> "send", senderId |-> Uid(c),
                        senderName |-> Name(c), senderRole |-> Role(c),
                        message |-> SentText(text), sentAt |-> serverTime,
                        late |-> ~ d.exists, subs |-> SubsOf(L.svc)])]
    ELSE L

\* The messages set by the callers of the service on a failure result.
ErrorOf(op) ==
    CASE op = "start" -> "Failed to start session"
      [] op = "end" -> "Failed to end session"
      [] OTHER -> "Failed to send message"

\* The events of the run that count against MaxEvents and MaxSoloEvents.
Events ==
    hist.log.events.manual + hist.log.events.send + hist.log.events.home
        + hist.log.events.fail

\* What the component shows: the loading view, the error view, else the
\* session view with its buttons and its chat form.
MainView(c) == view[c] = "session" /\ ~ st[c].isLoading /\ st[c].error = ""

ErrorView(c) == view[c] = "session" /\ ~ st[c].isLoading /\ st[c].error # ""

\* The component's next state after a handler left L: the render follows if
\* the component is mounted.
Step(c, L, home) ==
    SetLocal(c, IF view[c] = "session" THEN Render(c, st[c], L, home, doc) ELSE L)

-----------------------------------------------------------------------------
(* Actions *)

\* HomePage.handleJoinSession: the session view is shown, AppointmentSession
\* is mounted and its subscription effect runs.
Join(c) ==
    /\ view[c] = "home"
    /\ view' = [view EXCEPT ![c] = "session"]
    /\ SetLocal(c, Subscribe([Local(c) EXCEPT !.st = InitState], doc))
    /\ UNCHANGED <<doc, serverTime, messages, results, hist, listen, chat, page, sched>>

\* The listener of the appointment document delivers its next snapshot.
Deliver(c) ==
    /\ view[c] = "session"
    /\ inbox[c] # << >>
    /\ LET s == Head(inbox[c])
           L == OnSnapshot([Local(c) EXCEPT !.inbox = Tail(@)], s)
       IN  /\ L.tm.n <= MaxCountdowns
           /\ Step(c, L, FALSE)
           /\ hist' = [hist EXCEPT
                  !.cl[c].observed = IF s.exists THEN s.sessionStatus ELSE "absent",
                  !.cl[c].seen = @ \/ s.exists,
                  !.cl[c].remoteEnd = @ \/
                      (/\ ~ s.exists
                       /\ ~ st[c].sessionHasEnded
                       /\ tm[c].timers # {} /\ tm[c].ivs # {})]
    /\ UNCHANGED <<doc, serverTime, messages, results, view, listen, chat, page, sched>>

\* HomePage renders again under the session view (its own listener of the
\* user's appointments fired), and AppointmentSession with it.
HomeRender(c) ==
    /\ view[c] = "session"
    /\ Step(c, Local(c), TRUE)
    /\ hist' = [hist EXCEPT !.log.events.home = @ + 1]
    /\ UNCHANGED <<doc, serverTime, messages, results, view, listen, chat, page, sched>>

\* The arrow button or the End Session button: handleEndSession('manual').
ManualEnd(c) ==
    /\ MainView(c)
    /\ LET cap == st[c].sessionHasEnded
       IN  /\ Step(c, HandleEndSession(c, Local(c), cap, "manual", TRUE, doc), FALSE)
           /\ hist' = [hist EXCEPT
                  !.log.events.manual = @ + 1,
                  !.cl[c].endCalls = IF EndSkipped(cap) THEN @ ELSE @ + 1,
                  !.cl[c].manualEarly = @ \/
                      (/\ ~ EndSkipped(cap)
                       /\ \E x \in tm[c].timers : x.id = tm[c].timerRef
                       /\ ~ hist.cl[c].elapsed)]
    /\ UNCHANGED <<doc, serverTime, messages, results, view, listen, chat, page, sched>>

\* The intervals of client c run once, if its component is still mounted to
\* take the state update.
TickLocal(c, L) == IF view[c] = "session" THEN RunIntervals(1, L) ELSE L

\* One tick of time passes, for both clients: the deadlines come closer and
\* the armed intervals run. A deadline that is due fires before the next tick.
Tick ==
    /\ \E c \in Clients : tm[c].timers # {} \/ (tm[c].ivs # {} /\ view[c] = "session")
    /\ \A c \in Clients : \A x \in tm[c].timers : x.left > 0
    /\ LET L0(c) == [Local(c) EXCEPT
                        !.tm.timers = {[x EXCEPT !.left = @ - 1] : x \in @}]
           L(c) == TickLocal(c, L0(c))
       IN  /\ st' = [c \in Clients |-> L(c).st]
           /\ tm' = [c \in Clients |-> L(c).tm]
           /\ hist' = [hist EXCEPT !.cl =
                  [c \in Clients |-> [@[c] EXCEPT !.elapsed =
                      @ \/ (\E x \in L0(c).tm.timers : x.left = 0)]]]
    /\ UNCHANGED <<doc, serverTime, messages, reqs, results, inbox, view, redir, listen, chat, svc, page, sched>>

\* A deadline timer fires: handleEndSession('time_up') of the render that
\* armed it.
FireDeadline(c) ==
    /\ \E x \in tm[c].timers :
        /\ x.left = 0
        /\ Step(c, HandleEndSession(c, [Local(c) EXCEPT !.tm = ClearTimer(@, x.id)],
                                    x.cap, "time_up", view[c] = "session", doc),
                FALSE)
        /\ hist' = [hist EXCEPT
               !.cl[c].timeUpCalled = @ \/ ~ EndSkipped(x.cap),
               !.cl[c].endCalls = IF EndSkipped(x.cap) THEN @ ELSE @ + 1]
    /\ UNCHANGED <<doc, serverTime, messages, results, view, listen, chat, page, sched>>

\* The chat form is submitted with newMessage = text.
SendMessage(c, text) ==
    /\ MainView(c)
    /\ Step(c, HandleSendMessage(c, Local(c), text, doc), FALSE)
    /\ hist' = [hist EXCEPT
           !.log.events.send = @ + 1,
           !.log.ignored = IF SendAllowed(text, st[c]) THEN @
                           ELSE @ \cup {st[c].sessionStatus},
           !.log.blank = @ \/ (/\ Trim(text) = << >>
                               /\ st[c].sessionStatus = "active"
                               /\ ~ st[c].sessionHasEnded)]
    /\ UNCHANGED <<doc, serverTime, messages, results, view, listen, chat, page, sched>>

\* The store decides the oldest write of client c; ok = FALSE is a transient
\* failure (network, permission). Every listener is sent the changed document.
\* The caller's await resumes with the result. acked: the success result is
\* kept for Complete as well, so that the continuation of a successful call
\* is a step of its own.
Commit(c, ok, acked) ==
    /\ reqs[c] # << >>
    /\ LET r == Head(reqs[c])
           out == CASE r.op = "start" -> StartCommit(doc, serverTime + 1, r, ok)
                    [] r.op = "end" -> EndCommit(doc, r, ok)
                    [] OTHER -> [applied |-> ok, doc |-> doc]
       IN  /\ ~ ok => (r.op = "send" \/ doc.exists)
           /\ reqs' = [reqs EXCEPT ![c] = Tail(@)]
           /\ results' = [results EXCEPT ![c] =
                  IF out.applied /\ ~ acked THEN @
                  ELSE Append(@, [op |-> r.op, success |-> out.applied,
                                  late |-> r.late, subs |-> r.subs])]
           /\ doc' = out.doc
           /\ serverTime' = IF out.applied THEN serverTime + 1 ELSE serverTime
           /\ inbox' = [k \in Clients |->
                  IF out.applied /\ r.op # "send" /\ view[k] = "session"
                  THEN Append(inbox[k], Snap(out.doc))
                  ELSE inbox[k]]
           /\ messages' = IF out.applied /\ r.op = "send"
                          THEN Append(messages, MessageDoc(r))
                          ELSE messages
           /\ hist' = [hist EXCEPT
                  !.log.events.fail = IF ok THEN @ ELSE @ + 1,
                  !.log.startWrites =
                      IF out.applied /\ r.op = "start" THEN @ + 1 ELSE @,
                  !.log.ends =
                      IF out.applied /\ r.op = "end"
                      THEN Append(@, [endedBy |-> r.userId, endReason |-> r.reason])
                      ELSE @]
           /\ listen' = IF out.applied /\ r.op = "send"
                        THEN Notify(listen, Append(messages, MessageDoc(r)))
                        ELSE listen
    /\ UNCHANGED <<view, st, tm, redir, chat, svc, page, sched>>

\* The continuations of the callers act on a failure only, so that only a
\* failure result is kept for Complete.
ServerCommit(c, ok) == Commit(c, ok, FALSE)

OnResultStale(L, r, mounted) ==
    IF ~ mounted THEN L
    ELSE IF ~ r.success THEN [L EXCEPT !.st.error = ErrorOf(r.op)]
    ELSE IF r.op = "start" THEN [L EXCEPT !.st.sessionStatus = "waiting"]
    ELSE L

\* The await of a service call resumes with the result r.
OnResult(L, r, mounted) ==
    IF ~ r.success /\ mounted THEN [L EXCEPT !.st.error = ErrorOf(r.op)] ELSE L

Complete(c) ==
    /\ results[c] # << >>
    /\ LET r == Head(results[c])
       IN  /\ results' = [results EXCEPT ![c] = Tail(@)]
           /\ Step(c, OnResult(Local(c), r, view[c] = "session"), FALSE)
           /\ hist' = [hist EXCEPT !.cl[c].lateEndError =
                  @ \/ (~ r.success /\ view[c] = "session" /\ r.op = "end" /\ r.late)]
    /\ UNCHANGED <<doc, serverTime, messages, view, listen, chat, page, sched>>

\* HomePage.handleEndSessionCallback: back to the home view. If the session
\* view was shown, AppointmentSession is unmounted: the cleanups of its effects
\* run and its state is gone.
OnEndSession(c, L) ==
    /\ view' = [view EXCEPT ![c] = "left"]
    /\ SetLocal(c, IF view[c] = "session"
                   THEN [EffectCleanup(L) EXCEPT !.st = InitState, !.redir.three = FALSE]
                   ELSE L)
    /\ hist' = [hist EXCEPT !.cl[c].onEndCalls = @ + 1]

\* The timer of the subscription callback: setTimeout(() => onEndSession(), 1000).
RedirectOne(c) ==
    /\ redir[c].one > 0
    /\ OnEndSession(c, [Local(c) EXCEPT !.redir.one = @ - 1])
    /\ UNCHANGED <<doc, serverTime, messages, results, listen, chat, page, sched>>

\* The timer of the redirect effect: setTimeout(() => onEndSession(), 3000).
\* The effect arms it only under sessionStatus 'ended', which no snapshot
\* carries (NoEndedSnapshot), so that the action is no part of Next.
RedirectThree(c) ==
    /\ redir[c].three
    /\ OnEndSession(c, Local(c))
    /\ UNCHANGED <<doc, serverTime, messages, results, listen, chat, page, sched>>

\* The Go Back button of the error view.
GoBack(c) ==
    /\ ErrorView(c)
    /\ OnEndSession(c, Local(c))
    /\ UNCHANGED <<doc, serverTime, messages, results, listen, chat, page, sched>>

\* The steps of client c, with at most b events in the run.
ClientNext(c, b) ==
    \/ Join(c)
    \/ Deliver(c)
    \/ Events < b /\ HomeRender(c)
    \/ Events < b /\ ManualEnd(c)
    \/ FireDeadline(c)
    \/ \E text \in Texts : Events < b /\ SendMessage(c, text)
    \/ \E ok \in BOOLEAN : (ok \/ Events < b) /\ ServerCommit(c, ok)
    \/ Complete(c)
    \/ RedirectOne(c)
    \/ GoBack(c)

Next ==
    \/ Tick
    \/ \E c \in Clients : ClientNext(c, MaxEvents)

Spec == Init /\ [][Next]_vars

\* The session of one participant: the doctor joins and the patient does
\* not, with more events in the run.
SoloNext ==
    \/ Tick
    \/ ClientNext("doctor", MaxSoloEvents)

SoloSpec == Init /\ [][SoloNext]_vars

\* What runs without anybody acting: time passes, due timers fire, the store
\* decides the writes it was sent, listeners deliver, awaits resume. The user
\* actions (Join, ManualEnd, SendMessage, GoBack), HomePage's renders and the
\* store's failures are under no fairness.
Fairness ==
    /\ WF_vars(Tick)
    /\ \A c \in Clients :
        /\ WF_vars(Deliver(c))
        /\ WF_vars(FireDeadline(c))
        /\ WF_vars(ServerCommit(c, TRUE))
        /\ WF_vars(Complete(c))
        /\ WF_vars(RedirectOne(c))

FairSpec == Spec /\ Fairness

\* The session with the continuation of every call as a step of its own: the
\* result of a write and the snapshot that carries the write reach the client
\* in either order. No write fails and HomePage does not render again.
ServerCommitAcked(c) == Commit(c, TRUE, TRUE)

OrderNext ==
    \/ Tick
    \/ \E c \in Clients :
        \/ Join(c)
        \/ Deliver(c)
        \/ Events < MaxEvents /\ ManualEnd(c)
        \/ FireDeadline(c)
        \/ ServerCommitAcked(c)
        \/ Complete(c)
        \/ RedirectOne(c)

OrderSpec == Init /\ [][OrderNext]_vars

-----------------------------------------------------------------------------
(* The store operations under callers of any kind: startSession, endSession
   and sendMessage of the service and updateAppointmentSessionStatus, called
   in any order by either user, each write decided by the store. *)

\* The calls user c can make.
StoreRequests(c) ==
    {[op |-> "start", userId |-> Uid(c), late |-> ~ doc.exists,
      subs |-> SubsOf(svc[c])]}
    \cup {[op |-> "end", userId |-> Uid(c), reason |-> reason, late |-> ~ doc.exists,
            subs |-> SubsOf(svc[c])] :
             reason \in {"manual", "time_up"}}
    \cup {[op |-> "send", senderId |-> Uid(c), senderName |-> Name(c),
           senderRole |-> Role(c), message |-> <<"a">>, sentAt |-> serverTime,
           late |-> ~ doc.exists, subs |-> SubsOf(svc[c])]}

\* A service method is called: its write is on its way to the store.
StoreCall(c, r) ==
    /\ hist.log.calls < MaxCalls
    /\ reqs' = [reqs EXCEPT ![c] = Append(@, r)]
    /\ hist' = [hist EXCEPT !.log.calls = @ + 1]
    /\ UNCHANGED <<doc, serverTime, messages, results, inbox, view, st, tm, redir, listen, chat, svc, page, sched>>

\* updateAppointmentSessionStatus(appointmentId, status) is called and decided.
StatusUpdate(status, ok) ==
    /\ hist.log.calls < MaxCalls
    /\ doc' = StatusUpdateCommit(doc, status, ok)
    /\ hist' = [hist EXCEPT !.log.calls = @ + 1]
    /\ UNCHANGED <<serverTime, messages, reqs, results, inbox, view, st, tm, redir, listen, chat, svc, page, sched>>

StoreNext ==
    \/ \E c \in Clients : \E r \in StoreRequests(c) : StoreCall(c, r)
    \/ \E c \in Clients : \E ok \in BOOLEAN : ServerCommit(c, ok)
    \/ \E status \in {"waiting", "active", "completed"} :
           \E ok \in BOOLEAN : StatusUpdate(status, ok)

StoreSpec == Init /\ [][StoreNext]_vars

-----------------------------------------------------------------------------
(* The two listeners of a session view: the list of messages handed to the
   component on every append, whatever the order the messages reach the store
   in, and the error handlers of both listeners. *)

Stamps == FirstStamp..MaxStamp

UsedStamps == {messages[i].sentAt : i \in 1..Len(messages)}

\* subscribeToMessages of the subscription effect: the listener is registered
\* and first receives the ordered list as it is.
SubscribeToMessages(c) ==
    /\ view[c] = "session"
    /\ listen[c].state = "none"
    /\ listen' = [listen EXCEPT ![c] =
           [state |-> "live", pending |-> <<OrderByCreatedAt(messages)>>]]
    /\ UNCHANGED <<doc, serverTime, messages, reqs, results, inbox, view, st, tm,
                   redir, chat, svc, hist, page, sched>>

\* sendMessage of client c at instant t of its clock, and the store's append.
AddMessage(c, t) ==
    /\ view[c] = "session"
    /\ Len(messages) < MaxMessages
    /\ t \notin UsedStamps
    /\ messages' = Append(messages,
           MessageDoc([senderId |-> Uid(c), senderName |-> Name(c),
                       senderRole |-> Role(c), message |-> <<"a">>, sentAt |-> t]))
    /\ listen' = Notify(listen, messages')
    /\ UNCHANGED <<doc, serverTime, reqs, results, inbox, view, st, tm, redir,
                   chat, svc, hist, page, sched>>

\* The snapshot handler of the message listener calls the callback, which is
\* setMessages.
DeliverMessages(c) ==
    /\ listen[c].state = "live"
    /\ listen[c].pending # << >>
    /\ chat' = [chat EXCEPT ![c] = Head(listen[c].pending)]
    /\ listen' = [listen EXCEPT ![c].pending = Tail(@)]
    /\ UNCHANGED <<doc, serverTime, messages, reqs, results, inbox, view, st, tm,
                   redir, svc, hist, page, sched>>

\* The error handler of the message listener: callback([]).
MessagesFail(c) ==
    /\ listen[c].state = "live"
    /\ chat' = [chat EXCEPT ![c] = << >>]
    /\ listen' = [listen EXCEPT ![c] = [state |-> "failed", pending |-> << >>]]
    /\ hist' = [hist EXCEPT !.cl[c].failedStreams = @ \cup {"messages"}]
    /\ UNCHANGED <<doc, serverTime, messages, reqs, results, inbox, view, st, tm,
                   redir, svc, page, sched>>

\* The error handler of the appointment listener:
\* callback({exists: false, data: null, error}).
AppointmentFail(c) ==
    /\ view[c] = "session"
    /\ "appointment" \notin hist.cl[c].failedStreams
    /\ Step(c, OnSnapshot([Local(c) EXCEPT !.inbox = << >>], ErrorSnap), FALSE)
    /\ hist' = [hist EXCEPT !.cl[c].failedStreams = @ \cup {"appointment"}]
    /\ UNCHANGED <<doc, serverTime, messages, results, view, listen, chat, page, sched>>

StreamNext ==
    \E c \in Clients :
        \/ Join(c)
        \/ Deliver(c)
        \/ SubscribeToMessages(c)
        \/ \E t \in Stamps : AddMessage(c, t)
        \/ DeliverMessages(c)
        \/ MessagesFail(c)
        \/ AppointmentFail(c)

StreamSpec == Init /\ [][StreamNext]_vars

-----------------------------------------------------------------------------
(* The subscription handles of a service object under any order of
   subscribeToAppointment, subscribeToMessages and cleanup. *)

\* subscribeToAppointment: this.unsubscribeAppointment = onSnapshot(...).
ServiceSubscribeToAppointment(c) ==
    /\ svc[c].made < MaxSubscribes
    /\ svc' = [svc EXCEPT ![c].made = @ + 1,
                          ![c].unsubscribeAppointment = svc[c].made + 1]
    /\ UNCHANGED <<doc, serverTime, messages, reqs, results, inbox, view, st, tm,
                   redir, listen, chat, hist, page, sched>>

\* subscribeToMessages: this.unsubscribeMessages = onSnapshot(...).
ServiceSubscribeToMessages(c) ==
    /\ svc[c].made < MaxSubscribes
    /\ svc' = [svc EXCEPT ![c].made = @ + 1,
                          ![c].unsubscribeMessages = svc[c].made + 1]
    /\ UNCHANGED <<doc, serverTime, messages, reqs, results, inbox, view, st, tm,
                   redir, listen, chat, hist, page, sched>>

\* cleanup() is called.
ServiceCleanup(c) ==
    /\ svc[c].cleanups < MaxCleanups
    /\ svc' = [svc EXCEPT ![c] = [CleanupService(@) EXCEPT !.cleanups = @ + 1]]
    /\ UNCHANGED <<doc, serverTime, messages, reqs, results, inbox, view, st, tm,
                   redir, listen, chat, hist, page, sched>>

ServiceNext ==
    \E c \in Clients :
        \/ ServiceSubscribeToAppointment(c)
        \/ ServiceSubscribeToMessages(c)
        \/ ServiceCleanup(c)

ServiceSpec == Init /\ [][ServiceNext]_vars

-----------------------------------------------------------------------------
(* The session page (pages/AppointmentSession), which reads the appointment
   once, sets it active for the doctor and lets the doctor complete it. *)

\* The page is mounted: its listener is registered and fetchSessionData
\* starts, awaiting getAppointmentDetails.
PageOpen(c) ==
    /\ page[c].pc = "closed"
    /\ page[c].opens < MaxOpens
    /\ page' = [page EXCEPT ![c] = [pc |-> "fetching", appointment |-> "null",
                                    data |-> "null", opens |-> @.opens + 1]]
    /\ UNCHANGED <<doc, serverTime, messages, reqs, results, inbox, view, st, tm,
                   redir, listen, chat, svc, sched, hist>>

\* getAppointmentDetails resolves with the document as it is read now; null
\* ends the load, else setAppointment and the await of getPatientHealthRecord.
PageFetched(c) ==
    /\ page[c].pc = "fetching"
    /\ page' = [page EXCEPT ![c] =
           IF doc.exists
           THEN [@ EXCEPT !.pc = "fetched", !.data = doc.sessionStatus,
                          !.appointment = doc.sessionStatus]
           ELSE [@ EXCEPT !.pc = "open"]]
    /\ UNCHANGED <<doc, serverTime, messages, reqs, results, inbox, view, st, tm,
                   redir, listen, chat, svc, sched, hist>>

\* fetchSessionData: the doctor's page sets the session active unless
\* appointmentData says it is.
ActivateWanted(c, data) == c = "doctor" /\ data # "active"

\* getPatientHealthRecord resolves and fetchSessionData goes on to
\* updateAppointmentSessionStatus(appointmentId, 'active'), which the store
\* decides; a rejected write is caught and logged.
PageActivate(c, ok) ==
    /\ page[c].pc = "fetched"
    /\ ok \/ ActivateWanted(c, page[c].data)
    /\ IF ActivateWanted(c, page[c].data)
       THEN /\ doc' = StatusUpdateCommit(doc, "active", ok)
            /\ page' = [page EXCEPT ![c].pc = "open",
                                    ![c].appointment =
                                        IF ok /\ doc.exists THEN "active" ELSE @]
       ELSE /\ doc' = doc
            /\ page' = [page EXCEPT ![c].pc = "open"]
    /\ UNCHANGED <<serverTime, messages, reqs, results, inbox, view, st, tm,
                   redir, listen, chat, svc, sched, hist>>

\* handleCompleteSession of the doctor: completeAppointmentSession, then
\* onEndSession if it did not throw.
PageComplete(c, ok) ==
    /\ c = "doctor"
    /\ page[c].pc = "open"
    /\ page[c].appointment # "null"
    /\ doc' = CompleteCommit(doc, ok)
    /\ page' = [page EXCEPT ![c].pc = IF ok /\ doc.exists THEN "closed" ELSE @]
    /\ UNCHANGED <<serverTime, messages, reqs, results, inbox, view, st, tm,
                   redir, listen, chat, svc, sched, hist>>

\* The listener of the page's first effect delivers the document as it is:
\* the patient's page leaves on 'completed', else the data is merged into a
\* non-null appointment.
PageSnapshot(c) ==
    /\ page[c].pc # "closed"
    /\ doc.exists
    /\ page' = [page EXCEPT ![c] =
           IF doc.sessionStatus = "completed" /\ c # "doctor"
           THEN [@ EXCEPT !.pc = "closed"]
           ELSE IF @.appointment # "null"
                THEN [@ EXCEPT !.appointment = doc.sessionStatus]
                ELSE @]
    /\ page'[c] # page[c]
    /\ UNCHANGED <<doc, serverTime, messages, reqs, results, inbox, view, st, tm,
                   redir, listen, chat, svc, sched, hist>>

\* handleEndSession of the page: onEndSession.
PageLeave(c) ==
    /\ page[c].pc = "open"
    /\ page' = [page EXCEPT ![c].pc = "closed"]
    /\ UNCHANGED <<doc, serverTime, messages, reqs, results, inbox, view, st, tm,
                   redir, listen, chat, svc, sched, hist>>

PageNext ==
    \E c \in Clients :
        \/ PageOpen(c)
        \/ PageFetched(c)
        \/ \E ok \in BOOLEAN : PageActivate(c, ok)
        \/ \E ok \in BOOLEAN : PageComplete(c, ok)
        \/ PageSnapshot(c)
        \/ PageLeave(c)

PageSpec == Init /\ [][PageNext]_vars

-----------------------------------------------------------------------------
(* The schedule page of the doctor (ScheduleAppointmentPage) over one pending
   request: the list is loaded on mount and every 30 s, and a request of the
   list is approved or rejected. *)

SetPage(p, new) == sched' = [sched EXCEPT !.pages[p] = new]

\* The page is mounted: the effect calls fetchPendingRequests and arms the
\* refresh interval.
ScheduleOpen(p) ==
    /\ ~ sched.pages[p].mounted
    /\ SetPage(p, [sched.pages[p] EXCEPT !.mounted = TRUE])
    /\ UNCHANGED <<doc, serverTime, messages, reqs, results, inbox, view, st, tm,
                   redir, listen, chat, svc, page, hist>>

\* fetchPendingRequests (on mount or from the interval): the query of
\* getPendingAppointmentRequests is answered from the store as it is now.
FetchStart(p) ==
    /\ sched.pages[p].mounted
    /\ sched.pages[p].fetch = "none"
    /\ sched.pages[p].fetches < MaxFetches
    /\ SetPage(p, [sched.pages[p] EXCEPT
                      !.fetch = IF sched.request THEN "pending" ELSE "empty",
                      !.fetches = @ + 1])
    /\ UNCHANGED <<doc, serverTime, messages, reqs, results, inbox, view, st, tm,
                   redir, listen, chat, svc, page, hist>>

\* The await of getPendingAppointmentRequests resumes:
\* setPendingRequests(requests).
FetchDone(p) ==
    /\ sched.pages[p].fetch # "none"
    /\ SetPage(p, [sched.pages[p] EXCEPT
                      !.list = (sched.pages[p].fetch = "pending"),
                      !.fetch = "none"])
    /\ UNCHANGED <<doc, serverTime, messages, reqs, results, inbox, view, st, tm,
                   redir, listen, chat, svc, page, hist>>

\* The Approve or Reject button of the request is shown and enabled.
ButtonsEnabled(p) == sched.pages[p].list /\ ~ sched.pages[p].processing

\* handleApprove / handleReject up to the await: setProcessingId(requestId)
\* and the service call.
HandleDecision(p, call) ==
    /\ ButtonsEnabled(p)
    /\ sched.pages[p].call = "none"
    /\ SetPage(p, [sched.pages[p] EXCEPT !.processing = TRUE, !.call = call])
    /\ UNCHANGED <<doc, serverTime, messages, reqs, results, inbox, view, st, tm,
                   redir, listen, chat, svc, page, hist>>

\* The continuation of handleApprove and handleReject: on success the request
\* is filtered out of the list and setProcessingId(null) is set for 1000 ms
\* later; on an error processingId is reset at once.
AfterDecision(pg, ok) ==
    IF ok
    THEN [pg EXCEPT !.call = "none", !.list = FALSE, !.resets = @ + 1]
    ELSE [pg EXCEPT !.call = "none", !.processing = FALSE]

\* approveAppointmentRequest: the batch of set(new appointment with a new id,
\* sessionStatus 'waiting') and delete(request) is committed; neither write
\* has a precondition, and deleting a missing document succeeds.
ApproveCommit(s, ok) ==
    IF ok THEN [s EXCEPT !.created = @ + 1, !.request = FALSE] ELSE s

\* rejectAppointmentRequest: deleteDoc(request).
RejectCommit(s, ok) ==
    IF ok THEN [s EXCEPT !.request = FALSE, !.rejected = @ \/ s.request] ELSE s

\* The store decides the call of page p, and the handler's await resumes.
DecisionCommit(p, ok) ==
    /\ sched.pages[p].call # "none"
    /\ LET s == IF sched.pages[p].call = "approve"
                THEN ApproveCommit(sched, ok)
                ELSE RejectCommit(sched, ok)
       IN  sched' = [s EXCEPT !.pages[p] = AfterDecision(@, ok)]
    /\ UNCHANGED <<doc, serverTime, messages, reqs, results, inbox, view, st, tm,
                   redir, listen, chat, svc, page, hist>>

\* setTimeout(() => setProcessingId(null), 1000) fires.
ProcessingReset(p) ==
    /\ sched.pages[p].resets > 0
    /\ SetPage(p, [sched.pages[p] EXCEPT !.resets = @ - 1, !.processing = FALSE])
    /\ UNCHANGED <<doc, serverTime, messages, reqs, results, inbox, view, st, tm,
                   redir, listen, chat, svc, page, hist>>

ScheduleNext ==
    \E p \in Pages :
        \/ ScheduleOpen(p)
        \/ FetchStart(p)
        \/ FetchDone(p)
        \/ \E call \in {"approve", "reject"} : HandleDecision(p, call)
        \/ \E ok \in BOOLEAN : DecisionCommit(p, ok)
        \/ ProcessingReset(p)

ScheduleSpec == Init /\ [][ScheduleNext]_vars

-----------------------------------------------------------------------------
(* Properties *)

Rank(status) ==
    CASE status = "none" -> 0
      [] status = "waiting" -> 1
      [] status = "active" -> 2
      [] OTHER -> 3

DocStatus == IF doc.exists THEN doc.sessionStatus ELSE "absent"

\* No snapshot, sent or delivered, and no stored document carries 'ended'.
NoEndedSnapshot ==
    /\ doc.sessionStatus # "ended"
    /\ \A c \in Clients :
        /\ \A i \in 1..Len(inbox[c]) : inbox[c][i].sessionStatus # "ended"
        /\ hist.cl[c].observed # "ended"
        /\ st[c].sessionStatus # "ended"
        /\ ~ redir[c].three


SendReqs(q) == {i \in 1..Len(q) : q[i].op = "send"}

EndReqs(q) == {i \in 1..Len(q) : q[i].op = "end"}

\* A manual end was taken or the store failed a write.
Disturbed == hist.log.events.manual > 0 \/ hist.log.events.fail > 0

\* C1: the sessionStatus of the stored appointment document and the
\* sessionStatus each listener delivers only move forward in the order
\* waiting < active < ended, the absent document counting as ended; so does
\* the sessionStatus state of a component while it stays mounted.
C1_StatusMonotone ==
    [][/\ Rank(DocStatus') >= Rank(DocStatus)
       /\ \A c \in Clients :
           /\ Rank(hist'.cl[c].observed) >= Rank(hist.cl[c].observed)
           /\ (view[c] = "session" /\ view'[c] = "session")
                 => Rank(st'[c].sessionStatus) >= Rank(st[c].sessionStatus)]_vars

\* C1 witness: a listener has delivered the deletion after the document, while
\* the other client has observed the active document.
C1_Witness ==
    \E c, k \in Clients :
        /\ c # k
        /\ hist.cl[c].seen /\ hist.cl[c].observed = "absent"
        /\ hist.cl[k].observed = "active"

\* C2: once the document is active under a mounted client and nobody ends the
\* session by hand (and no write fails), the session is ended by a deadline
\* with endReason 'time_up' and that client leaves the session view.
C2_TimeoutEnd ==
    \A c \in Clients :
        (doc.exists /\ doc.sessionStatus = "active" /\ view[c] = "session")
            ~> \/ Disturbed
               \/ /\ hist.log.ends # << >>
                  /\ hist.log.ends[1].endReason = "time_up"
                  /\ view[c] = "left"

\* C3: a client that has observed the document and then receives a snapshot
\* with exists = false leaves the session view.
C3_NotFoundLeaves ==
    \A c \in Clients :
        (view[c] = "session" /\ hist.cl[c].seen /\ hist.cl[c].observed = "absent")
            ~> view[c] = "left"

\* C4: sessionStartTime is written exactly once, whatever the number of
\* startSession calls.
C4_StartOnce == hist.log.startWrites <= 1

\* C5: an endSession called after the document has been removed sends no
\* write to the store and is not reported to the user as a failure.
C5_EndIdempotent ==
    \A c \in Clients :
        /\ \A i \in EndReqs(reqs[c]) : ~ reqs[c][i].late
        /\ ~ hist.cl[c].lateEndError

\* C6: after handleEndSession('manual') has run on a client whose countdown is
\* running and whose deadline is not yet due, no deadline timer and no interval
\* is armed on that client, and the client never calls endSession with
\* 'time_up'.
C6_CountdownCancelled ==
    \A c \in Clients :
        hist.cl[c].manualEarly =>
            /\ tm[c].timers = {}
            /\ tm[c].ivs = {}
            /\ ~ hist.cl[c].timeUpCalled

\* C6 witness: the manual end was taken with the countdown running, and its
\* write has been committed.
C6_Witness ==
    \E c \in Clients :
        /\ hist.cl[c].manualEarly
        /\ hist.log.ends = <<[endedBy |-> Uid(c), endReason |-> "manual"]>>

\* C7: the end of a session is atomic. No stored document, no snapshot and no
\* component carries sessionStatus 'ended'; a committed end removes the
\* document in the step that records endedBy and endReason; a failed write
\* leaves the document as it was.
C7_EndAtomic ==
    /\ []NoEndedSnapshot
    /\ [][/\ hist'.log.ends # hist.log.ends => (doc.exists /\ ~ doc'.exists)
          /\ (\E c \in Clients : Len(results'[c]) > Len(results[c])) => doc' = doc]_vars

\* C7 witness: an end was committed and a listener delivered the deletion
\* right after the active document.
C7_Witness ==
    /\ hist.log.ends # << >>
    /\ \E c \in Clients : hist.cl[c].observed = "absent" /\ st[c].sessionStatus = "active"

\* C8: at most one endSession is committed in a session, and its endReason is
\* one of manual, time_up, completed.
C8_EndedOnce ==
    /\ Len(hist.log.ends) <= 1
    /\ \A i \in 1..Len(hist.log.ends) :
        hist.log.ends[i].endReason \in {"manual", "time_up", "completed"}
    /\ hist.log.ends # << >> => ~ doc.exists

\* C8 witness: one end is committed and a second endSession, of the other
\* client, has been rejected.
C8_Witness ==
    /\ Len(hist.log.ends) = 1
    /\ \E c \in Clients :
        /\ hist.log.ends[1].endedBy # Uid(c)
        /\ \E i \in 1..Len(results[c]) : results[c][i].op = "end"

\* C9: a component calls sendMessage only when its sessionStatus is active and
\* its sessionHasEnded is false; a submission under waiting calls nothing and
\* appends nothing.
C9_SendOnlyWhenActive ==
    [][/\ \A c \in Clients :
          Cardinality(SendReqs(reqs'[c])) > Cardinality(SendReqs(reqs[c]))
              => st[c].sessionStatus = "active" /\ ~ st[c].sessionHasEnded
       /\ messages' # messages
              => \E c \in Clients : reqs[c] # << >> /\ Head(reqs[c]).op = "send"]_vars

\* C9 witness: a submission under waiting was dropped, and nothing was sent or
\* appended.
C9_Witness ==
    /\ "waiting" \in hist.log.ignored
    /\ messages = << >>
    /\ \A c \in Clients : SendReqs(reqs[c]) = {}

SortedBySentAt(list) ==
    \A i, j \in 1..Len(list) : i < j => list[i].sentAt < list[j].sentAt

Range(list) == {list[i] : i \in 1..Len(list)}

\* The lists the message listener of client c has handed or is about to hand
\* to the callback.
ListsOf(c) == {chat[c]} \cup Range(listen[c].pending)

\* The list of client c made from the latest state of the sub-collection.
LatestList(c) ==
    IF listen[c].pending = << >> THEN chat[c]
    ELSE listen[c].pending[Len(listen[c].pending)]

\* C11: every list a message listener hands to its callback is in ascending
\* order of the instants the messages were sent at, whatever the order they
\* reached the store in, and holds messages of the sub-collection only, the
\* latest list all of them.
C11_MessagesOrdered ==
    \A c \in Clients :
        /\ \A list \in ListsOf(c) :
              SortedBySentAt(list) /\ Range(list) \subseteq Range(messages)
        /\ listen[c].state = "live" => Range(LatestList(c)) = Range(messages)

\* C11 witness: three messages reached the store latest first, across the
\* instant at which the clock gains a digit, and a client's messages state
\* holds the three.
C11_Witness ==
    /\ Len(messages) = 3
    /\ messages[1].sentAt > messages[2].sentAt
    /\ messages[2].sentAt > messages[3].sentAt
    /\ \E c \in Clients : Len(chat[c]) = 3 /\ chat[c][1] = messages[3]

ResultsOf(op) ==
    {<<c, i>> \in Clients \X (1..MaxCalls + 1) :
        i <= Len(results[c]) /\ results[c][i].op = op}

\* C13: every write of startSession, endSession and sendMessage that the store
\* does not apply comes back to the caller as a failure result (the service
\* catches the error), and with a failure result the appointment document and
\* the message sub-collection are as they were.
C13_FailureIsResult ==
    [][\A c \in Clients :
          /\ Len(results'[c]) > Len(results[c]) =>
                /\ results'[c] = Append(results[c], results'[c][Len(results'[c])])
                /\ ~ results'[c][Len(results'[c])].success
                /\ doc' = doc
                /\ messages' = messages
          /\ (Len(reqs'[c]) < Len(reqs[c]) /\ serverTime' = serverTime) =>
                Len(results'[c]) = Len(results[c]) + 1]_vars

\* C13 witness: a startSession, an endSession and a sendMessage have failed
\* at the store, and the document is the waiting appointment with no message.
C13_Witness ==
    /\ ResultsOf("start") # {} /\ ResultsOf("end") # {} /\ ResultsOf("send") # {}
    /\ doc = NewAppointment
    /\ messages = << >>

\* C14: after the error handler of the appointment listener or of the message
\* listener has run, the component is in its error state.
C14_StreamFailureSurfaced ==
    \A c \in Clients : hist.cl[c].failedStreams # {} => st[c].error # ""

\* C15: cleanup() calls each unsubscribe function the service holds once and
\* leaves both handles null; called with both handles null (again, or before
\* any subscribe) it changes nothing; no unsubscribe function is called twice.
C15_CleanupIdempotent ==
    /\ [](\A c \in Clients :
            \A i, j \in 1..Len(svc[c].released) :
                i # j => svc[c].released[i] # svc[c].released[j])
    /\ [][\A c \in Clients :
            svc'[c].cleanups > svc[c].cleanups =>
                /\ svc'[c].unsubscribeAppointment = 0
                /\ svc'[c].unsubscribeMessages = 0
                /\ Len(svc'[c].released) = Len(svc[c].released)
                      + (IF svc[c].unsubscribeAppointment # 0 THEN 1 ELSE 0)
                      + (IF svc[c].unsubscribeMessages # 0 THEN 1 ELSE 0)
                /\ \A h \in {svc[c].unsubscribeAppointment, svc[c].unsubscribeMessages} \ {0} :
                      \E i \in 1..Len(svc'[c].released) : svc'[c].released[i] = h
                /\ (svc[c].unsubscribeAppointment = 0 /\ svc[c].unsubscribeMessages = 0)
                      => svc'[c] = [svc[c] EXCEPT !.cleanups = @ + 1]]_vars

\* C15 witness: on one service cleanup() ran twice after both subscriptions,
\* and the two unsubscribe functions were called once each; on the other it
\* ran before any subscribe.
C15_Witness ==
    \E c, k \in Clients :
        /\ svc[c].cleanups = 2 /\ svc[c].made = 2 /\ Len(svc[c].released) = 2
        /\ svc[c].unsubscribeAppointment = 0 /\ svc[c].unsubscribeMessages = 0
        /\ svc[k].cleanups = 1 /\ svc[k].made = 0 /\ svc[k].released = << >>

\* C16: once the appointment document is deleted, no startSession, endSession
\* or status update of either user recreates it or writes to it: the document
\* stays absent, with no field set.
C16_DeletionTerminal == [][~ doc.exists => doc' = NoDoc]_vars

\* C16 witness: after the committed end a startSession and an endSession were
\* called on the absent document, and both were rejected.
C16_Witness ==
    /\ ~ doc.exists
    /\ hist.log.ends # << >>
    /\ \E c, k \in Clients :
        /\ \E i \in 1..Len(results[c]) : results[c][i].op = "start" /\ results[c][i].late
        /\ \E i \in 1..Len(results[k]) : results[k][i].op = "end" /\ results[k][i].late

\* C17: on each client at most one display interval and at most one deadline
\* timer are armed, and startCountdown runs at most once in a session.
C17_OneCountdown ==
    \A c \in Clients :
        /\ Cardinality(tm[c].timers) <= 1
        /\ Cardinality(tm[c].ivs) <= 1
        /\ tm[c].n <= 1

\* C18: on one client, whatever the end triggers (manual ends, the deadline
\* callback of an earlier render), the service's endSession is called at most
\* once.
C18_OneEndCall == \A c \in Clients : hist.cl[c].endCalls <= 1

\* C19: for one session view onEndSession is called at most once, over the
\* redirect of the subscription callback, the redirect effect and the
\* re-subscriptions that deliver a further not-found snapshot.
C19_OneRedirect == \A c \in Clients : hist.cl[c].onEndCalls <= 1

\* C20: once a client with a running countdown has been delivered the end of
\* the session by the other participant, neither its interval nor its deadline
\* timer is armed, and it has no endSession('time_up') on its way.
C20_RemoteEndClearsTimers ==
    \A c \in Clients :
        hist.cl[c].remoteEnd =>
            /\ tm[c].timers = {}
            /\ tm[c].ivs = {}
            /\ \A i \in EndReqs(reqs[c]) : reqs[c][i].reason # "time_up"

\* C21: once the session view of a client is torn down, none of its timers
\* fires (no interval is armed, no deadline calls endSession and no redirect
\* calls onEndSession) and its listeners are unregistered.
C21_NoTimerAfterTeardown ==
    /\ [](\A c \in Clients :
            view[c] = "left" => tm[c].ivs = {} /\ inbox[c] = << >>)
    /\ [][\A c \in Clients :
            view[c] = "left" =>
                /\ hist'.cl[c].endCalls = hist.cl[c].endCalls
                /\ hist'.cl[c].onEndCalls = hist.cl[c].onEndCalls
                /\ reqs'[c] = reqs[c] \/ reqs'[c] = Tail(reqs[c])]_vars

\* C22: when a failure result of startSession, endSession or sendMessage is
\* handled on a mounted client (with no re-render of HomePage in the run), the
\* appointment listener and the message listener of the client are the ones
\* that were registered when the call was made.
C22_FailureKeepsSubscriptions ==
    [][\A c \in Clients :
          (/\ Len(results'[c]) < Len(results[c])
           /\ view[c] = "session"
           /\ hist.log.events.home = 0)
              => SubsOf(svc'[c]) = Head(results[c]).subs]_vars

\* C23: a mounted client on which a failure of endSession has been handled,
\* with the appointment document still there and active, still has a way to
\* call endSession: an end button it is shown whose handler passes the guard,
\* or an armed deadline whose handler passes the guard.
C23_FailedEndRecoverable ==
    \A c \in Clients :
        (/\ view[c] = "session"
         /\ st[c].error = ErrorOf("end")
         /\ doc.exists /\ doc.sessionStatus = "active")
            => \/ MainView(c) /\ ~ EndSkipped(st[c].sessionHasEnded)
               \/ \E x \in tm[c].timers : ~ EndSkipped(x.cap)

\* The state of a component and of its timers, listeners and writes.
ClientState(L) ==
    [st |-> L.st, tm |-> L.tm, redir |-> L.redir, inbox |-> L.inbox,
     reqs |-> L.reqs, svc |-> L.svc]

\* The component of client c in state L takes the next snapshot of its
\* listener, and renders.
AfterDeliver(c, L) ==
    Render(c, L.st,
           OnSnapshot([L EXCEPT !.inbox = Tail(@), !.fresh = FALSE], Head(L.inbox)),
           FALSE, doc)

\* The component of client c in state L takes the result r, and renders.
AfterComplete(c, L, r) ==
    Render(c, L.st, OnResult([L EXCEPT !.fresh = FALSE], r, TRUE), FALSE, doc)

\* A successful startSession or endSession of client c has its result not yet
\* handled while a snapshot waits at the client's listener.
OwnWritePending(c) ==
    /\ view[c] = "session"
    /\ inbox[c] # << >>
    /\ results[c] # << >>
    /\ Head(results[c]).success
    /\ Head(results[c]).op \in {"start", "end"}

\* C24: when the result of a client's successful startSession or endSession
\* and a snapshot of its listener are both waiting, taking the snapshot first
\* and the result second leaves the client in the state that the other order
\* leaves it in: same status, same sessionHasEnded, same armed timers, same
\* writes sent.
C24_OrderTolerant ==
    \A c \in Clients :
        OwnWritePending(c) =>
            ClientState(AfterComplete(c, AfterDeliver(c, Local(c)), Head(results[c])))
                = ClientState(AfterDeliver(c, AfterComplete(c, Local(c), Head(results[c]))))

\* C24 witness: the doctor's startSession is committed, with its result and
\* the active snapshot both waiting, while the patient's endSession is
\* committed, with its result and the snapshot of the deletion both waiting.
C24_Witness ==
    /\ OwnWritePending("doctor")
    /\ Head(results["doctor"]).op = "start"
    /\ Head(inbox["doctor"]).sessionStatus = "active"
    /\ OwnWritePending("patient")
    /\ Head(results["patient"]).op = "end"
    /\ ~ Head(inbox["patient"]).exists

TimerIds(t) == {x.id : x \in t.timers}

\* An interval or a deadline timer of client c is cleared or gone in the step.
Cancelled(c) ==
    \/ TimerIds(tm'[c]) \subseteq TimerIds(tm[c]) /\ TimerIds(tm'[c]) # TimerIds(tm[c])
    \/ tm'[c].ivs \subseteq tm[c].ivs /\ tm'[c].ivs # tm[c].ivs

\* C25: a step that clears an interval or a deadline timer of a client (effect
\* cleanup on a re-run or on teardown, handleEndSession) leaves the appointment
\* document and the messages as they are, and sends a write only as the
\* endSession call of handleEndSession; the document is deleted only by a
\* committed endSession write.
C25_CancelIsLocal ==
    [][/\ \A c \in Clients :
            Cancelled(c) =>
                /\ doc' = doc
                /\ messages' = messages
                /\ Len(reqs'[c]) > Len(reqs[c])
                      => hist'.cl[c].endCalls > hist.cl[c].endCalls
       /\ (doc.exists /\ ~ doc'.exists) =>
            \E c \in Clients :
                /\ reqs[c] # << >>
                /\ Head(reqs[c]).op = "end"
                /\ reqs'[c] = Tail(reqs[c])]_vars

\* C25 witness: HomePage rendered again under a running countdown; the effect
\* cleanup cleared the interval and the deadline of a client whose session is
\* not ended, and the document is still active with no write on its way.
C25_Witness ==
    \E c \in Clients :
        /\ hist.log.events.home = 1
        /\ view[c] = "session" /\ ~ st[c].sessionHasEnded
        /\ tm[c].timerRef # 0 /\ tm[c].timers = {} /\ tm[c].ivs = {}
        /\ st[c].timeRemaining > 0
        /\ doc.exists /\ doc.sessionStatus = "active"
        /\ reqs[c] = << >>

\* C26: under the session page, the sessionStatus of an appointment that is
\* 'completed' stays 'completed': no opening of the page by the doctor writes
\* 'active' over it.
C26_CompletedStays ==
    [][(doc.exists /\ doc.sessionStatus = "completed")
          => doc'.sessionStatus = "completed"]_vars

\* C27: a mounted client whose listener has delivered all its snapshots, the
\* last of them with the active status, and that has not ended the session
\* itself, has a deadline timer armed.
C27_DeadlineArmedWhileActive ==
    \A c \in Clients :
        (/\ view[c] = "session"
         /\ inbox[c] = << >>
         /\ hist.cl[c].observed = "active"
         /\ st[c].sessionStatus = "active"
         /\ ~ st[c].sessionHasEnded)
            => tm[c].timers # {}

\* C28: a message is appended to the message sub-collection only while the
\* appointment document exists.
C28_NoMessageAfterDeletion ==
    [][messages' # messages => doc.exists]_vars

\* C29: at most one appointment is created from a request, whatever the
\* approvals of it, and the approval that creates it removes the request in
\* the same step.
C29_OneAppointmentPerRequest ==
    /\ [](sched.created <= 1)
    /\ [][sched'.created > sched.created => ~ sched'.request]_vars

\* C30: once a rejection has deleted the request, no appointment is created
\* from it.
C30_RejectedStaysRejected ==
    sched.rejected => sched.created = 0

====
